---- MODULE Spec2Model ----
(***************************************************************************)
(* IMG2GS: depth back-projection (core/geometry.py), the Gaussian splat    *)
(* parameter store and its optimisation step (core/optimization.py), the   *)
(* PLY reader (run_optimization.py) and the command-line pipelines.        *)
(*                                                                         *)
(* Real numbers of the projection are exact rationals <<n, d>> (d > 0), a  *)
(* non-finite float is <<0, 0>>.  Depth values are integers counted in     *)
(* units of the 1e-8 guard of project_to_3d, so that the guard is the      *)
(* integer 1 and every quotient of the function stays exact.               *)
(***************************************************************************)
EXTENDS Integers, Sequences, FiniteSets, TLC

VARIABLES
    image,      \* the PIL image handed to project_to_3d: [width, height, px]
    depth,      \* the depth map, depth[v][u], rows v = 1..H, columns u = 1..W
    proj_pc,    \* position of the projection: "input" | "projected"
    xyz,        \* project_to_3d's first result, a sequence of <<X, Y, Z>>
    rgb,        \* project_to_3d's second result, a sequence of <<r, g, b>>
    args,       \* the arrays handed to GaussianOptimizer(points, colors)
    store_pc,   \* "new" before the constructor, "ready" after it, "saved"
                \* once save_ply, the last call every script makes, was called,
                \* "reloaded" for the store re-created from the saved file (a
                \* store of the same constructor, followed no further)
    points_initial, \* self.points_initial, float32 [N, 3]
    colors_initial, \* self.colors_initial, float32 [M, 3]
    N,          \* self.N
    means,      \* self.means      [N, 3]  position
    scales,     \* self.scales     [N, 3]  log_scale
    quats,      \* self.quats      [N, 4]  raw_rotation (w, x, y, z)
    opacities,  \* self.opacities  [N, 1]  opacity_logit
    sh0,        \* self.sh0        [M, 1, 3] color_sh0, the unit axis dropped
    grads,      \* the .grad of every registered tensor: None or a tensor
    optimizer,  \* self.optimizer: [param_groups, state]
    calls,      \* optimize_step calls made so far
    ret,        \* what the last call on the store returned or raised
    color_only, \* TRUE once the caller has asked for color-only mode
    ply,        \* the PLY file save_ply wrote: None or its vertex element
    script,     \* the command-line script that is running, or "none"
    pipe_pc,    \* where the script is
    iterations, \* its --iters argument
    iter,       \* the loop variable i of its optimization loop
    exit_code,  \* the exit status of its process: None while it runs
    report,     \* what it printed about a failure
    failed,     \* the stage that raised, "none" when none did
    files,      \* the names of the files it has written
    initial_ply, \* the PLY file of the plain point-cloud writer
    camera      \* the intrinsics K of its optimization loop: None until built

projVars == <<image, depth, proj_pc, xyz, rgb>>
storeVars == <<args, store_pc, points_initial, colors_initial, N, means, scales,
               quats, opacities, sh0, grads, optimizer, calls, ret, color_only,
               ply>>
pipeVars == <<script, pipe_pc, iterations, iter, exit_code, report, failed, files,
              initial_ply, camera>>

-----------------------------------------------------------------------------
(* Bounds of the model *)

MaxDim == 4          \* images are at most MaxDim x MaxDim pixels
MaxDepthStep == 2    \* depth patterns rise by at most this many units a pixel
MaxN == 2            \* arrays handed to the constructor have at most MaxN rows
MaxSteps == 2        \* optimize_step is called at most MaxSteps times
MaxPipeDim == 1      \* the scripts' input images are at most MaxPipeDim pixels wide

-----------------------------------------------------------------------------
(* Exact rational arithmetic standing for numpy's float arithmetic *)

RECURSIVE GCD(_, _)
GCD(a, b) == IF b = 0 THEN a ELSE GCD(b, a % b)

Abs(x) == IF x < 0 THEN -x ELSE x

NaN == <<0, 0>>

IsFinite(r) == r[2] # 0

\* n/d in lowest terms with a positive denominator; x/0 is not finite
Rat(n, d) ==
    IF d = 0 THEN NaN
    ELSE LET g == GCD(Abs(n), Abs(d))
             s == IF d < 0 THEN -1 ELSE 1
         IN  <<s * (n \div g), s * (d \div g)>>

RInt(k) == <<k, 1>>

RAdd(a, b) == IF IsFinite(a) /\ IsFinite(b)
              THEN Rat(a[1] * b[2] + b[1] * a[2], a[2] * b[2]) ELSE NaN
RSub(a, b) == IF IsFinite(a) /\ IsFinite(b)
              THEN Rat(a[1] * b[2] - b[1] * a[2], a[2] * b[2]) ELSE NaN
RMul(a, b) == IF IsFinite(a) /\ IsFinite(b)
              THEN Rat(a[1] * b[1], a[2] * b[2]) ELSE NaN
RDiv(a, b) == IF IsFinite(a) /\ IsFinite(b)
              THEN Rat(a[1] * b[2], a[2] * b[1]) ELSE NaN
RNeg(a) == IF IsFinite(a) THEN <<-a[1], a[2]>> ELSE NaN
RLess(a, b) == a[1] * b[2] < b[1] * a[2]

-----------------------------------------------------------------------------
(* core/geometry.py *)

DefaultFov == 55     \* fov=55.0, the default of get_intrinsics and project_to_3d
DepthEps == 1        \* the 1e-8 of the disparity quotient, in depth units
FlatDepth == 500000000   \* the 5.0 of the flat mock depth map, in depth units

\* np.tan(0.5 * np.radians(fov)) to four decimals
TanHalfFov(fov) ==
    CASE fov = 55 -> Rat(5206, 10000)
      [] fov = 60 -> Rat(5774, 10000)

\* get_intrinsics with the principal point at the centre of the pixel grid
get_intrinsics_Centred(width, height, fov) ==
    LET f == RDiv(RMul(Rat(1, 2), RInt(width)), TanHalfFov(fov))
    IN  [fx |-> f, fy |-> f, cx |-> Rat(width - 1, 2), cy |-> Rat(height - 1, 2)]

\* get_intrinsics: the matrix [[f, 0, cx], [0, f, cy], [0, 0, 1]]
get_intrinsics(width, height, fov) ==
    LET f == RDiv(RMul(Rat(1, 2), RInt(width)), TanHalfFov(fov))
        cx == Rat(width, 2)
        cy == Rat(height, 2)
    IN  [fx |-> f, fy |-> f, cx |-> cx, cy |-> cy]

\* ndarray.reshape(-1, 3) of an (H, W, 3) array: C order, index i = v*W + u
ReshapeRows_ColumnMajor(arr, height, width) ==
    [i \in 1..(height * width) |-> arr[((i - 1) % height) + 1][((i - 1) \div height) + 1]]

ReshapeRows(arr, height, width) ==
    [i \in 1..(height * width) |-> arr[((i - 1) \div width) + 1][((i - 1) % width) + 1]]

SeqMin(s) == CHOOSE m \in {s[i] : i \in DOMAIN s} : \A i \in DOMAIN s : m <= s[i]
SeqMax(s) == CHOOSE m \in {s[i] : i \in DOMAIN s} : \A i \in DOMAIN s : m >= s[i]

\* the denominator of the disparity quotient, without its guard
DisparityRange_NoEps(depth_min, depth_max) == depth_max - depth_min

\* depth_max - depth_min + 1e-8
DisparityRange(depth_min, depth_max) == depth_max - depth_min + DepthEps

\* 1 / disparity, the inverse without its 0.05 offset
InverseDepth_NoOffset(disparity) == RDiv(RInt(1), disparity)

\* z_3d = 1.0 / (disparity + 0.05)
InverseDepth(disparity) == RDiv(RInt(1), RAdd(disparity, Rat(5, 100)))

\* project_to_3d(image, depth, fov): the pair (xyz, rgb)
project_to_3d(img, dep, fov) ==
    LET width == img.width
        height == img.height
        \* np.meshgrid(np.arange(width), np.arange(height)): xx[v][u] = u, yy[v][u] = v
        xx == [v \in 1..height |-> [u \in 1..width |-> u - 1]]
        yy == [v \in 1..height |-> [u \in 1..width |-> v - 1]]
        K == get_intrinsics(width, height, fov)
        flat == ReshapeRows(dep, height, width)
        depth_min == SeqMin(flat)
        depth_max == SeqMax(flat)
        disparity == [v \in 1..height |-> [u \in 1..width |->
                        Rat(dep[v][u] - depth_min, DisparityRange(depth_min, depth_max))]]
        z_inv == [v \in 1..height |-> [u \in 1..width |-> InverseDepth(disparity[v][u])]]
        z_3d == [v \in 1..height |-> [u \in 1..width |-> RMul(z_inv[v][u], RInt(5))]]
        x_3d == [v \in 1..height |-> [u \in 1..width |->
                        RDiv(RMul(RSub(RInt(xx[v][u]), K.cx), z_3d[v][u]), K.fx)]]
        y_3d == [v \in 1..height |-> [u \in 1..width |->
                        RDiv(RMul(RSub(RInt(yy[v][u]), K.cy), z_3d[v][u]), K.fy)]]
        stacked == [v \in 1..height |-> [u \in 1..width |->
                        <<x_3d[v][u], y_3d[v][u], z_3d[v][u]>>]]
        colours == [v \in 1..height |-> [u \in 1..width |->
                        [c \in 1..3 |-> Rat(img.px[v][u][c], 255)]]]
    IN  [xyz |-> ReshapeRows(stacked, height, width),
         rgb |-> ReshapeRows(colours, height, width)]

-----------------------------------------------------------------------------
(* Inputs of the projection: every size up to MaxDim x MaxDim, images whose *)
(* pixels all differ, depth maps that are flat, ramps or a single spike.    *)

\* an RGB image whose pixel (u, v) has the 0..255 channels <<u', v', tint>>
TestImage(width, height, tint) ==
    [width |-> width, height |-> height,
     px |-> [v \in 1..height |-> [u \in 1..width |-> <<20 * u, 20 * v, tint>>]]]

\* a depth map base + a*u + b*v (flat when a = b = 0)
RampDepth(width, height, base, a, b) ==
    [v \in 1..height |-> [u \in 1..width |-> base + a * (u - 1) + b * (v - 1)]]

\* a flat depth map with one nearer pixel at (1, 1)
SpikeDepth(width, height, base) ==
    [v \in 1..height |-> [u \in 1..width |-> IF u = 1 /\ v = 1 THEN base + 1 ELSE base]]

DepthMaps(width, height) ==
    {RampDepth(width, height, base, a, b) :
        base \in {0, FlatDepth}, a \in 0..MaxDepthStep, b \in 0..MaxDepthStep}
    \cup {SpikeDepth(width, height, base) : base \in {0, FlatDepth}}

ProjInputs ==
    /\ \E width \in 1..MaxDim, height \in 1..MaxDim :
         /\ image \in {TestImage(width, height, tint) : tint \in {0, 255}}
         /\ depth \in DepthMaps(width, height)
    /\ proj_pc = "input"
    /\ xyz = <<>>
    /\ rgb = <<>>

\* xyz, rgb = project_to_3d(image, depth)
Project ==
    /\ proj_pc = "input"
    /\ LET out == project_to_3d(image, depth, DefaultFov)
       IN  /\ xyz' = out.xyz
           /\ rgb' = out.rgb
    /\ proj_pc' = "projected"
    /\ UNCHANGED <<image, depth>>

-----------------------------------------------------------------------------
(* core/optimization.py: fixed-point float32 tensors *)

\* Tensor entries are integers counted in 1/Unit, so 1.0 is Unit.
Unit == 10000
\* float32 keeps every second fixed-point value: the rounding of a float64
Float32Step == 2

\* Python's None, and a value that is present
None == <<>>
Some(x) == <<x>>

\* torch.tensor(x, dtype=torch.float32), astype('f4'): round to float32
ToFloat32(x) == (x \div Float32Step) * Float32Step

\* the fixed-point quotient and product of two entries
FDiv(a, b) == (a * Unit) \div b
FMul(a, b) == (a * b) \div Unit

Tensor32(t) == [i \in 1..Len(t) |-> [k \in 1..Len(t[i]) |-> ToFloat32(t[i][k])]]

\* torch.full((rows, cols), value)
Full(rows, cols, value) == [i \in 1..rows |-> [k \in 1..cols |-> value]]

SH_C0_SCALE == 2821        \* 0.28209479177387814
InitLogScale == -50000     \* torch.full((N, 3), -5.0)
LrMeans == 16              \* 0.00016 * 10
LrColorsInitial == 25      \* 0.0025
LrScales == 50             \* 0.005
LrQuats == 10              \* 0.001
LrSh0 == 25                \* 0.0025
LrOpacities == 500         \* 0.05

\* an RGB entry turned into an SH coefficient without the 0.5 offset
ColorToSH_NoOffset(c) == ToFloat32(FDiv(c, SH_C0_SCALE))

\* base_color = (self.colors_initial - 0.5) / SH_C0_SCALE, entry by entry
ColorToSH(c) == ToFloat32(FDiv(c - Unit \div 2, SH_C0_SCALE))

\* torch.zeros((n, 4)) left as it is
IdentityQuats_Zeros(n) == [i \in 1..n |-> <<0, 0, 0, 0>>]

\* quats = torch.zeros((self.N, 4)); quats[:, 0] = 1.0
IdentityQuats(n) == [i \in 1..n |-> <<Unit, 0, 0, 0>>]

\* _initialize_parameters: the five nn.Parameter tensors; pts and cols are
\* self.points_initial and self.colors_initial
InitialParameters(pts, cols) ==
    LET n == Len(pts)
    IN  [means |-> pts,
         scales |-> Full(n, 3, InitLogScale),
         quats |-> IdentityQuats(n),
         opacities |-> Full(n, 1, 0),
         sh0 |-> [i \in 1..Len(cols) |-> [k \in 1..3 |-> ColorToSH(cols[i][k])]]]

\* _setup_optimizer: the groups handed to torch.optim.Adam, in order
ParamGroups ==
    << [params |-> "means", lr |-> LrMeans],
       [params |-> "colors_initial", lr |-> LrColorsInitial],
       [params |-> "scales", lr |-> LrScales],
       [params |-> "quats", lr |-> LrQuats],
       [params |-> "sh0", lr |-> LrSh0],
       [params |-> "opacities", lr |-> LrOpacities] >>

Registered == {ParamGroups[g].params : g \in 1..Len(ParamGroups)}

\* torch.optim.Adam(groups): no per-tensor state until the first step
NewOptimizer == [param_groups |-> ParamGroups, state |-> [p \in Registered |-> None]]

NoGrads == [p \in Registered |-> None]

NoReturn == [op |-> "none", outcome |-> "none"]

-----------------------------------------------------------------------------
(* Inputs of the constructor: points and colours of 1..MaxN rows each, the  *)
(* row counts chosen independently.                                         *)

\* row i of a point array: distinct rows, not all on the float32 grid
PointRow(i) == <<Unit * i + 1, -Unit * i, 3 * Unit + 2 * i>>

\* row i of a colour array with entries in [0, 1]
ColorRow(i, shade) == <<shade, Unit \div 2, (Unit \div (i + 1)) + 1>>

PointArrays == {[i \in 1..n |-> PointRow(i)] : n \in 1..MaxN}
ColorArrays == {[i \in 1..n |-> ColorRow(i, shade)] : n \in 1..MaxN, shade \in {0, Unit}}

StoreInputs ==
    /\ args \in [points : PointArrays, colors : ColorArrays]
    /\ store_pc = "new"
    /\ points_initial = <<>>
    /\ colors_initial = <<>>
    /\ N = 0
    /\ means = <<>>
    /\ scales = <<>>
    /\ quats = <<>>
    /\ opacities = <<>>
    /\ sh0 = <<>>
    /\ grads = NoGrads
    /\ optimizer = NewOptimizer
    /\ calls = 0
    /\ ret = NoReturn
    /\ color_only = FALSE
    /\ ply = None

\* GaussianOptimizer.__init__(points, colors): the whole constructor
Build(points, colors) ==
    LET pts == Tensor32(points)
        cols == Tensor32(colors)
        p == InitialParameters(pts, cols)
    IN  /\ points_initial' = pts
        /\ colors_initial' = cols
        /\ N' = Len(pts)
        /\ means' = p.means
        /\ scales' = p.scales
        /\ quats' = p.quats
        /\ opacities' = p.opacities
        /\ sh0' = p.sh0
        /\ grads' = NoGrads
        /\ optimizer' = NewOptimizer

\* optimizer = GaussianOptimizer(points, colors)
Construct ==
    /\ store_pc = "new"
    /\ Build(args.points, args.colors)
    /\ store_pc' = "ready"
    /\ ret' = [op |-> "__init__", outcome |-> "ok"]
    /\ UNCHANGED <<args, calls, color_only, ply>>

-----------------------------------------------------------------------------
(* optimize_step *)

RECURSIVE Pow(_, _)
Pow(b, e) == IF e = 0 THEN 1 ELSE b * Pow(b, e - 1)

Sign(x) == IF x > 0 THEN 1 ELSE IF x < 0 THEN -1 ELSE 0

\* the tensor the attribute `name` of the store holds
Param(name) ==
    CASE name = "means" -> means
      [] name = "scales" -> scales
      [] name = "quats" -> quats
      [] name = "opacities" -> opacities
      [] name = "sh0" -> sh0
      [] name = "colors_initial" -> colors_initial

\* the tensors that require grad: the five nn.Parameter of self.params
Trainable == {"means", "scales", "quats", "opacities", "sh0"}

\* Gradients the backward pass of the rasterizer can leave on a tensor: zero,
\* positive everywhere, or signs alternating from splat to splat.
GradKinds == {"zero", "pos", "alt"}

GradOf(kind, t) ==
    [i \in 1..Len(t) |-> [k \in 1..Len(t[i]) |->
        CASE kind = "zero" -> 0
          [] kind = "pos" -> 1
          [] kind = "alt" -> IF i % 2 = 1 THEN 1 ELSE -1]]

\* loss.backward(): every tensor that requires grad receives one
Backward(kind) ==
    [p \in Registered |-> IF p \in Trainable THEN Some(GradOf(kind, Param(p))) ELSE None]

\* the .grad tensors found by a call, kept as they are
ZeroGrad_Skipped(gr) == gr

\* self.optimizer.zero_grad(): every .grad of a registered tensor is cleared
ZeroGrad(gr) == [p \in DOMAIN gr |-> None]

\* loss.backward() adds its gradient to the .grad a tensor already holds
Accumulate(held, fresh) ==
    [p \in DOMAIN held |->
        IF fresh[p] = None THEN held[p]
        ELSE IF held[p] = None THEN fresh[p]
        ELSE Some([i \in 1..Len(fresh[p][1]) |-> [k \in 1..Len(fresh[p][1][i]) |->
                    held[p][1][i][k] + fresh[p][1][i][k]]])]

\* Adam's state of one tensor after one more step with gradient g.  exp_avg is
\* kept times 10^step and exp_avg_sq times 1000^step (betas 0.9 and 0.999), so
\* both stay integers.
AdamMoments(st, g) ==
    LET old == IF st = None
               THEN [step |-> 0,
                     exp_avg |-> [i \in 1..Len(g) |-> [k \in 1..Len(g[i]) |-> 0]],
                     exp_avg_sq |-> [i \in 1..Len(g) |-> [k \in 1..Len(g[i]) |-> 0]]]
               ELSE st[1]
    IN  [step |-> old.step + 1,
         exp_avg |-> [i \in 1..Len(g) |-> [k \in 1..Len(g[i]) |->
                        9 * old.exp_avg[i][k] + Pow(10, old.step) * g[i][k]]],
         exp_avg_sq |-> [i \in 1..Len(g) |-> [k \in 1..Len(g[i]) |->
                        999 * old.exp_avg_sq[i][k]
                            + Pow(1000, old.step) * g[i][k] * g[i][k]]]]

\* The tensor after Adam's update: p - lr * m_hat / (sqrt(v_hat) + eps).  The
\* quotient has the sign of exp_avg and a size of at most about 1; the model
\* moves every entry by the whole learning rate in that direction.
AdamApply(t, st, lr) ==
    [i \in 1..Len(t) |-> [k \in 1..Len(t[i]) |->
        ToFloat32(t[i][k] - lr * Sign(st.exp_avg[i][k]))]]

\* the groups whose tensor has a gradient: the ones optimizer.step() updates
Stepped(ps, gr) == {g \in 1..Len(ps.param_groups) : gr[ps.param_groups[g].params] # None}

LrOf(ps, name) ==
    LET g == CHOOSE g \in 1..Len(ps.param_groups) : ps.param_groups[g].params = name
    IN  ps.param_groups[g].lr

Updated(ps, gr, name) == \E g \in Stepped(ps, gr) : ps.param_groups[g].params = name

\* self.optimizer.step(): the optimizer's state afterwards
AdamState(ps, gr) ==
    [ps EXCEPT !.state = [p \in Registered |->
        IF Updated(ps, gr, p) THEN Some(AdamMoments(ps.state[p], gr[p][1])) ELSE ps.state[p]]]

\* self.optimizer.step(): the tensor `name` afterwards
AdamParam(ps, gr, name) ==
    IF Updated(ps, gr, name)
    THEN AdamApply(Param(name), AdamMoments(ps.state[name], gr[name][1]), LrOf(ps, name))
    ELSE Param(name)

\* the largest r with r * r <= x, for 0 <= x < hi * hi
RECURSIVE SqrtBetween(_, _, _)
SqrtBetween(x, lo, hi) ==
    IF hi - lo <= 1 THEN lo
    ELSE LET mid == (lo + hi) \div 2
         IN  IF mid * mid <= x THEN SqrtBetween(x, mid, hi) ELSE SqrtBetween(x, lo, mid)

\* the length of a row cut down to whole units
Norm_Truncated(q) ==
    (SqrtBetween(q[1] * q[1] + q[2] * q[2] + q[3] * q[3] + q[4] * q[4], 0, 4 * Unit) \div Unit) * Unit

\* q.norm(): the fixed-point length of a row
Norm(q) == SqrtBetween(q[1] * q[1] + q[2] * q[2] + q[3] * q[3] + q[4] * q[4], 0, 4 * Unit)

\* render: quats_final = self.quats / self.quats.norm(dim=-1, keepdim=True),
\* one row of it; a row of norm 0 divides 0 by 0 and comes out as NaN
Normalized(q) ==
    IF Norm(q) = 0 THEN [nan |-> TRUE, row |-> q]
    ELSE [nan |-> FALSE, row |-> [k \in 1..4 |-> (q[k] * Unit) \div Norm(q)]]

\* [H, W, 3] images of one pixel: the ground truth and what the rasterizer draws
Black == <<0, 0, 0>>
White == <<Unit, Unit, Unit>>
\* the ground truths handed to optimize_step, and the rasterizer's renderings
GtImages == {White}
Rendered == {Black, White}

\* torch.abs(rendered_image - gt_image).sum()
L1Loss_Sum(rendered, gt) ==
    Abs(rendered[1] - gt[1]) + Abs(rendered[2] - gt[2]) + Abs(rendered[3] - gt[3])

\* torch.abs(rendered_image - gt_image).mean()
L1Loss(rendered, gt) ==
    (Abs(rendered[1] - gt[1]) + Abs(rendered[2] - gt[2]) + Abs(rendered[3] - gt[3])) \div 3

\* rasterization() accepts the tensors only when their leading counts agree
RasterizerAccepts == Len(sh0) = Len(means)

\* optimize_step returning (loss, rendered_image): zero_grad, render, loss,
\* backward, step.  A rendered image equal to the ground truth has an L1
\* gradient of zero everywhere; any other is taken to have a gradient.  The
\* image returned is the tensor render produced, `drawn` the positions,
\* colours and quats_final the rasterizer drew it from: those before
\* optimizer.step().  Nothing looks at quats_final before it is handed over.
OptimizeStepReturns ==
    /\ store_pc = "ready"
    /\ calls < MaxSteps
    /\ RasterizerAccepts
    /\ \E gt \in GtImages, rendered \in Rendered, kind \in GradKinds :
         /\ rendered = gt <=> kind = "zero"
         /\ LET gr == Accumulate(ZeroGrad(grads), Backward(kind))
            IN  /\ grads' = gr
                /\ optimizer' = AdamState(optimizer, gr)
                /\ means' = AdamParam(optimizer, gr, "means")
                /\ scales' = AdamParam(optimizer, gr, "scales")
                /\ quats' = AdamParam(optimizer, gr, "quats")
                /\ opacities' = AdamParam(optimizer, gr, "opacities")
                /\ sh0' = AdamParam(optimizer, gr, "sh0")
                /\ colors_initial' = AdamParam(optimizer, gr, "colors_initial")
         /\ ret' = [op |-> "optimize_step", outcome |-> "ok",
                    loss |-> L1Loss(rendered, gt), image |-> rendered, gt |-> gt,
                    drawn |-> [means |-> means, sh0 |-> sh0,
                               quats |-> [i \in 1..Len(quats) |-> Normalized(quats[i])]]]
    /\ calls' = calls + 1
    /\ UNCHANGED <<args, store_pc, points_initial, N, color_only, ply>>

\* where optimize_step can raise: unpacking gt_image.shape, the rasterizer
\* inside render, the subtraction of images of different shapes, backward
RaiseStages == {"gt_shape", "render", "loss_shape", "backward"}

\* the tensors that hold a gradient when backward raises part-way
PartialBackward == {NoGrads, [p \in Registered |-> IF p = "sh0" THEN Some(GradOf("pos", sh0)) ELSE None]}

\* the gradients an aborted call leaves behind: untouched when it raised
\* before zero_grad, cleared after it, and partly written by a failed backward
GradsAfterRaise(stage) ==
    CASE stage = "gt_shape" -> {grads}
      [] stage \in {"render", "loss_shape"} -> {NoGrads}
      [] stage = "backward" -> PartialBackward

\* optimize_step running optimizer.step() on a positive gradient before it raises
OptimizeStepRaises_AfterUpdate ==
    /\ store_pc = "ready"
    /\ calls < MaxSteps
    /\ RasterizerAccepts
    /\ LET gr == Backward("pos")
       IN  /\ grads' = gr
           /\ optimizer' = AdamState(optimizer, gr)
           /\ means' = AdamParam(optimizer, gr, "means")
           /\ scales' = AdamParam(optimizer, gr, "scales")
           /\ quats' = AdamParam(optimizer, gr, "quats")
           /\ opacities' = AdamParam(optimizer, gr, "opacities")
           /\ sh0' = AdamParam(optimizer, gr, "sh0")
    /\ ret' = [op |-> "optimize_step", outcome |-> "raised"]
    /\ calls' = calls + 1
    /\ UNCHANGED <<args, store_pc, points_initial, colors_initial, N, color_only, ply>>

\* optimize_step raising at one of `stages`: optimizer.step() is never reached
OptimizeStepRaisesAt(stages) ==
    /\ store_pc = "ready"
    /\ calls < MaxSteps
    /\ \E stage \in stages :
         /\ ~RasterizerAccepts => stage \in {"gt_shape", "render"}
         /\ grads' \in GradsAfterRaise(stage)
         /\ ret' = [op |-> "optimize_step", outcome |-> "raised"]
    /\ calls' = calls + 1
    /\ UNCHANGED <<args, store_pc, points_initial, colors_initial, N, means, scales,
                   quats, opacities, sh0, optimizer, color_only, ply>>

OptimizeStepRaises == OptimizeStepRaisesAt(RaiseStages)

-----------------------------------------------------------------------------
(* convert_mesh.py, texture_mesh.py: bulk overrides and the color-only switch *)

SolidOpacity == 100000     \* optimizer.opacities.data.fill_(10.0)
MeshOpacity == 50000       \* optimizer.opacities.data.fill_(5.0)

\* np.log(scale_radius) of the sampled meshes
LogScales == {-3 * Unit}

\* tensor.data.fill_(value) filling the first row only
Fill_FirstRow(t, value) ==
    [i \in 1..Len(t) |-> [k \in 1..Len(t[i]) |-> IF i = 1 THEN ToFloat32(value) ELSE t[i][k]]]

\* tensor.data.fill_(value): every entry of every row
Fill(t, value) == [i \in 1..Len(t) |-> [k \in 1..Len(t[i]) |-> ToFloat32(value)]]

\* with torch.no_grad(): optimizer.scales.data.fill_(log_scale)
OverrideScales ==
    /\ store_pc = "ready"
    /\ \E value \in LogScales : scales' = Fill(scales, value)
    /\ UNCHANGED <<ret, args, store_pc, points_initial, colors_initial, N, means, quats,
                   opacities, sh0, grads, optimizer, calls, color_only, ply>>

\* with torch.no_grad(): optimizer.opacities.data.fill_(10.0) or fill_(5.0)
OverrideOpacities ==
    /\ store_pc = "ready"
    /\ \E value \in {SolidOpacity, MeshOpacity} : opacities' = Fill(opacities, value)
    /\ UNCHANGED <<ret, args, store_pc, points_initial, colors_initial, N, means, scales,
                   quats, sh0, grads, optimizer, calls, color_only, ply>>

\* optimizer.switch_to_color_optimization(lr=0.02): GaussianOptimizer defines
\* no such method, so the attribute lookup raises AttributeError and the
\* optimizer keeps the groups _setup_optimizer gave it
SwitchToColorOptimization ==
    /\ store_pc = "ready"
    /\ ~color_only
    /\ calls = 0
    /\ color_only' = TRUE
    /\ ret' = [op |-> "switch_to_color_optimization", outcome |-> "raised"]
    /\ UNCHANGED <<args, store_pc, points_initial, colors_initial, N, means, scales,
                   quats, opacities, sh0, grads, optimizer, calls, ply>>

-----------------------------------------------------------------------------
(* GaussianOptimizer.save_ply and run_optimization.load_ply *)

\* dtype_full: the 17 float32 properties of the vertex element, in order
FieldOrder == <<"x", "y", "z", "nx", "ny", "nz", "f_dc_0", "f_dc_1", "f_dc_2",
                "opacity", "scale_0", "scale_1", "scale_2",
                "rot_0", "rot_1", "rot_2", "rot_3">>

\* elements[field] = column: numpy broadcasts a column of one row over all
\* rows and raises ValueError for any other column of the wrong length
Assignable(column, n) == Len(column) = n \/ Len(column) = 1

\* the assignment filling the records from the last row of the column upwards
Broadcast_Reversed(column, n) ==
    [i \in 1..n |-> IF Len(column) = 1 THEN column[1] ELSE column[n + 1 - i]]

Broadcast(column, n) == [i \in 1..n |-> IF Len(column) = 1 THEN column[1] ELSE column[i]]

\* the structured array save_ply fills from the five tensors
Elements(xyz_, f_dc, opac, scal, rots) ==
    LET n == Len(xyz_)
        c == Broadcast(f_dc, n)
        o == Broadcast(opac, n)
        s == Broadcast(scal, n)
        r == Broadcast(rots, n)
    IN  [i \in 1..n |->
           [x |-> ToFloat32(xyz_[i][1]), y |-> ToFloat32(xyz_[i][2]), z |-> ToFloat32(xyz_[i][3]),
            nx |-> 0, ny |-> 0, nz |-> 0,
            f_dc_0 |-> ToFloat32(c[i][1]), f_dc_1 |-> ToFloat32(c[i][2]),
            f_dc_2 |-> ToFloat32(c[i][3]),
            opacity |-> ToFloat32(o[i][1]),
            scale_0 |-> ToFloat32(s[i][1]), scale_1 |-> ToFloat32(s[i][2]),
            scale_2 |-> ToFloat32(s[i][3]),
            rot_0 |-> ToFloat32(r[i][1]), rot_1 |-> ToFloat32(r[i][2]),
            rot_2 |-> ToFloat32(r[i][3]), rot_3 |-> ToFloat32(r[i][4])]]

\* GaussianOptimizer.save_ply(path) writing the file
SavePlyReturns ==
    /\ store_pc = "ready"
    /\ Assignable(sh0, Len(means))
    /\ ply' = Some([fields |-> FieldOrder,
                    vertex |-> Elements(means, sh0, opacities, scales, quats)])
    /\ ret' = [op |-> "save_ply", outcome |-> "ok"]
    /\ store_pc' = "saved"
    /\ UNCHANGED <<args, points_initial, colors_initial, N, means, scales,
                   quats, opacities, sh0, grads, optimizer, calls, color_only>>

\* GaussianOptimizer.save_ply(path) raising ValueError on a column of the
\* wrong length, before anything is written
SavePlyRaises ==
    /\ store_pc = "ready"
    /\ ~Assignable(sh0, Len(means))
    /\ ret' = [op |-> "save_ply", outcome |-> "raised"]
    /\ store_pc' = "saved"
    /\ UNCHANGED <<args, points_initial, colors_initial, N, means, scales,
                   quats, opacities, sh0, grads, optimizer, calls, color_only, ply>>

Has(file, field) == \E k \in 1..Len(file.fields) : file.fields[k] = field

Clip(x, lo, hi) == IF x < lo THEN lo ELSE IF x > hi THEN hi ELSE x

\* load_ply can read the file: vertex['x'], ['y'], ['z'] exist
Loadable(file) == Has(file, "x") /\ Has(file, "y") /\ Has(file, "z")

\* load_ply returning the vertices in reverse order
load_ply_Reversed(file) ==
    LET v == file.vertex
        n == Len(v)
    IN  [points |-> [i \in 1..n |-> <<v[n + 1 - i].x, v[n + 1 - i].y, v[n + 1 - i].z>>],
         colors |-> [i \in 1..n |-> <<Unit, Unit, Unit>>]]

\* the colour branch of load_ply with the SH fields tried before red/green/blue
ColorSource_ShFirst(file) ==
    IF Has(file, "f_dc_0") /\ Has(file, "f_dc_1") /\ Has(file, "f_dc_2") THEN "f_dc"
    ELSE IF Has(file, "red") /\ Has(file, "green") /\ Has(file, "blue") THEN "rgb"
    ELSE "white"

\* the branch of load_ply's if / elif / else that supplies the colours
ColorSource(file) ==
    IF Has(file, "red") /\ Has(file, "green") /\ Has(file, "blue") THEN "rgb"
    ELSE IF Has(file, "f_dc_0") /\ Has(file, "f_dc_1") /\ Has(file, "f_dc_2") THEN "f_dc"
    ELSE "white"

\* what load_ply prints: the warning of its fallback branch, or nothing
LoadPlyPrints(file) ==
    IF ColorSource(file) = "white" THEN "Warning: No color data found, using white."
    ELSE "none"

\* load_ply(path): the pair (points, colors)
load_ply(file) ==
    LET v == file.vertex
        points == [i \in 1..Len(v) |-> <<v[i].x, v[i].y, v[i].z>>]
        colors ==
            CASE ColorSource(file) = "rgb" ->
                    [i \in 1..Len(v) |-> <<ToFloat32(FDiv(v[i].red, 255)),
                                            ToFloat32(FDiv(v[i].green, 255)),
                                            ToFloat32(FDiv(v[i].blue, 255))>>]
              [] ColorSource(file) = "f_dc" ->
                    [i \in 1..Len(v) |->
                       <<Clip(ToFloat32(FMul(v[i].f_dc_0, SH_C0_SCALE) + Unit \div 2), 0, Unit),
                         Clip(ToFloat32(FMul(v[i].f_dc_1, SH_C0_SCALE) + Unit \div 2), 0, Unit),
                         Clip(ToFloat32(FMul(v[i].f_dc_2, SH_C0_SCALE) + Unit \div 2), 0, Unit)>>]
              [] ColorSource(file) = "white" -> [i \in 1..Len(v) |-> <<Unit, Unit, Unit>>]
    IN  [points |-> points, colors |-> colors]

\* run_optimization.main, steps 1 and 3: points, colors = load_ply(args.ply);
\* optimizer = GaussianOptimizer(points, colors)
Reload ==
    /\ store_pc = "saved"
    /\ ply # None
    /\ Loadable(ply[1])
    /\ LET loaded == load_ply(ply[1])
       IN  /\ args' = loaded
           /\ Build(loaded.points, loaded.colors)
    /\ ret' = [op |-> "load_ply", outcome |-> "ok"]
    /\ color_only' = FALSE
    /\ store_pc' = "reloaded"
    /\ UNCHANGED <<calls, ply>>

-----------------------------------------------------------------------------
(* load_ply on PLY files of any origin: vertex elements with or without the *)
(* position, the 0-255 colour and the SH fields, whole or in part.          *)

PositionFields == {<<"x", "y", "z">>, <<"x">>, <<>>}
RgbFields == {<<"red", "green", "blue">>, <<"red", "green">>, <<>>}
ShFields == {<<"f_dc_0", "f_dc_1", "f_dc_2">>, <<"f_dc_0">>, <<>>}

\* the value of property `name` in record i: float32 positions, uint8 colours
\* whose red is `red`, SH coefficients whose first is `dc` (decoding below 0,
\* inside [0, 1] or above 1)
FieldValue(name, i, red, dc) ==
    CASE name = "x" -> ToFloat32(PointRow(i)[1])
      [] name = "y" -> ToFloat32(PointRow(i)[2])
      [] name = "z" -> ToFloat32(PointRow(i)[3])
      [] name = "red" -> red
      [] name = "green" -> 128
      [] name = "blue" -> 255 - 20 * i
      [] name = "f_dc_0" -> dc
      [] name = "f_dc_1" -> Unit
      [] name = "f_dc_2" -> -(Unit \div i)

PlyFile(fields, n, red, dc) ==
    [fields |-> fields,
     vertex |-> [i \in 1..n |->
                   [name \in {fields[k] : k \in 1..Len(fields)} |->
                       FieldValue(name, i, red, dc)]]]

PlyFiles ==
    {PlyFile(pos \o col \o sh, n, red, dc) :
        pos \in PositionFields, col \in RgbFields, sh \in ShFields,
        n \in 1..MaxN, red \in {0, 255}, dc \in {-2 * Unit, 0, 2 * Unit}}

ReadInputs ==
    /\ ply \in {Some(f) : f \in PlyFiles}
    /\ store_pc = "file"
    /\ args = [points |-> <<>>, colors |-> <<>>]
    /\ points_initial = <<>>
    /\ colors_initial = <<>>
    /\ N = 0
    /\ means = <<>>
    /\ scales = <<>>
    /\ quats = <<>>
    /\ opacities = <<>>
    /\ sh0 = <<>>
    /\ grads = NoGrads
    /\ optimizer = NewOptimizer
    /\ calls = 0
    /\ ret = NoReturn
    /\ color_only = FALSE

\* load_ply on a file without positions returning zeros for them
LoadPlyRaises_Substitutes ==
    /\ store_pc = "file"
    /\ ~Loadable(ply[1])
    /\ args' = [points |-> [i \in 1..Len(ply[1].vertex) |-> <<0, 0, 0>>],
                colors |-> [i \in 1..Len(ply[1].vertex) |-> <<Unit, Unit, Unit>>]]
    /\ ret' = [op |-> "load_ply", outcome |-> "ok", printed |-> "none"]
    /\ store_pc' = "loaded"
    /\ UNCHANGED <<points_initial, colors_initial, N, means, scales, quats, opacities,
                   sh0, grads, optimizer, calls, color_only, ply>>

\* points, colors = load_ply(path)
LoadPlyReturns ==
    /\ store_pc = "file"
    /\ Loadable(ply[1])
    /\ args' = load_ply(ply[1])
    /\ ret' = [op |-> "load_ply", outcome |-> "ok", printed |-> LoadPlyPrints(ply[1])]
    /\ store_pc' = "loaded"
    /\ UNCHANGED <<points_initial, colors_initial, N, means, scales, quats, opacities,
                   sh0, grads, optimizer, calls, color_only, ply>>

\* load_ply raising on vertex['x'], vertex['y'] or vertex['z']: no pair is returned
LoadPlyRaises ==
    /\ store_pc = "file"
    /\ ~Loadable(ply[1])
    /\ ret' = [op |-> "load_ply", outcome |-> "raised", printed |-> "none"]
    /\ store_pc' = "load_failed"
    /\ UNCHANGED <<args, points_initial, colors_initial, N, means, scales, quats,
                   opacities, sh0, grads, optimizer, calls, color_only, ply>>

-----------------------------------------------------------------------------
(* core/geometry.py save_ply: the plain point-cloud writer *)

PlainOpacity == 1000000    \* np.ones((num_points, 1)) * 100.0
PlainLogScale == -40000    \* np.ones((num_points, 3)) * -4.0

\* floor(r * Unit) of a finite rational, by long division
RECURSIVE Digits(_, _, _)
Digits(rem, d, k) ==
    IF k = 0 THEN 0
    ELSE ((rem * 10) \div d) * Pow(10, k - 1) + Digits((rem * 10) % d, d, k - 1)

ToFixed(r) == (r[1] \div r[2]) * Unit + Digits(r[1] % r[2], r[2], 4)

FixedRows(t) == [i \in 1..Len(t) |-> [k \in 1..Len(t[i]) |-> ToFixed(t[i][k])]]

\* a record of the plain writer holding the opacity 1.0 where 100.0 is meant
PlainRecord_UnitOpacity(p, c) ==
    [x |-> ToFloat32(p[1]), y |-> ToFloat32(p[2]), z |-> ToFloat32(p[3]),
     nx |-> 0, ny |-> 0, nz |-> 0,
     f_dc_0 |-> ToFloat32(FDiv(c[1] - Unit \div 2, SH_C0_SCALE)),
     f_dc_1 |-> ToFloat32(FDiv(c[2] - Unit \div 2, SH_C0_SCALE)),
     f_dc_2 |-> ToFloat32(FDiv(c[3] - Unit \div 2, SH_C0_SCALE)),
     opacity |-> Unit,
     scale_0 |-> PlainLogScale, scale_1 |-> PlainLogScale, scale_2 |-> PlainLogScale,
     rot_0 |-> Unit, rot_1 |-> 0, rot_2 |-> 0, rot_3 |-> 0]

\* the record save_ply of core/geometry.py builds from point p and colour c:
\* f_dc = (rgb - 0.5) / C0, opacity 100.0, scale -4.0, rotation [1, 0, 0, 0]
PlainRecord(p, c) ==
    [x |-> ToFloat32(p[1]), y |-> ToFloat32(p[2]), z |-> ToFloat32(p[3]),
     nx |-> 0, ny |-> 0, nz |-> 0,
     f_dc_0 |-> ToFloat32(FDiv(c[1] - Unit \div 2, SH_C0_SCALE)),
     f_dc_1 |-> ToFloat32(FDiv(c[2] - Unit \div 2, SH_C0_SCALE)),
     f_dc_2 |-> ToFloat32(FDiv(c[3] - Unit \div 2, SH_C0_SCALE)),
     opacity |-> PlainOpacity,
     scale_0 |-> PlainLogScale, scale_1 |-> PlainLogScale, scale_2 |-> PlainLogScale,
     rot_0 |-> Unit, rot_1 |-> 0, rot_2 |-> 0, rot_3 |-> 0]

\* save_ply(xyz, rgb, output_path) of core/geometry.py: the file it writes
PlainElements(xyz_, rgb_) == [i \in 1..Len(xyz_) |-> PlainRecord(xyz_[i], rgb_[i])]

-----------------------------------------------------------------------------
(* demo_pipeline.py, and verify_phase3.py running run_optimization.py *)

Scripts == {"demo_pipeline", "run_optimization"}

\* the upscaled image and depth map of run_demo, the dummy ones of verify_phase3
PipeImages == {TestImage(2 * w, 2 * h, 255) : w \in 1..MaxPipeDim, h \in 1..MaxPipeDim}
PipeDepths(width, height) ==
    {RampDepth(width, height, 0, a, b) : a \in 0..1, b \in 0..1}
    \cup {RampDepth(width, height, FlatDepth, 0, 0)}

PipeInputs ==
    /\ script \in Scripts
    /\ iterations \in 0..MaxSteps
    /\ image \in PipeImages
    /\ depth \in PipeDepths(image.width, image.height)
    /\ proj_pc = "input"
    /\ xyz = <<>>
    /\ rgb = <<>>
    /\ pipe_pc = "start"
    /\ iter = 0
    /\ exit_code = None
    /\ report = "none"
    /\ failed = "none"
    /\ files = {}
    /\ initial_ply = None
    /\ camera = None

\* an exception nobody catches: the interpreter prints the traceback and the
\* process ends with status 1
Crash(stage) ==
    /\ pipe_pc' = "exited"
    /\ exit_code' = Some(1)
    /\ report' = "Traceback"
    /\ failed' = stage
    /\ UNCHANGED <<script, iterations, iter>>

\* run_demo's except Exception: print "ERROR IN PHASE 3:", write the traceback
\* to error_log.txt, return the two paths; the script then ends with status 0
DemoExcept(stage) ==
    /\ pipe_pc' = "exited"
    /\ exit_code' = Some(0)
    /\ report' = "ERROR IN PHASE 3:"
    /\ failed' = stage
    /\ files' = files \cup {"error_log.txt"}
    /\ UNCHANGED <<script, iterations, iter>>

\* demo_pipeline's __main__ finding no image: print the error, sys.exit(1)
DemoMissingImage ==
    /\ script = "demo_pipeline"
    /\ pipe_pc = "start"
    /\ pipe_pc' = "exited"
    /\ exit_code' = Some(1)
    /\ report' = "Error: Image not found."
    /\ failed' = "input"
    /\ UNCHANGED <<script, iterations, iter, files, initial_ply, camera, projVars, storeVars>>

\* run_demo opening the image, estimating and upscaling the depth;
\* create_dummy_data drawing its image and its flat depth map
Prepare ==
    /\ pipe_pc = "start"
    /\ \/ /\ pipe_pc' = "project"
          /\ UNCHANGED <<script, iterations, iter, exit_code, report, failed>>
       \/ /\ script = "demo_pipeline"
          /\ Crash("depth")
    /\ UNCHANGED <<files, initial_ply, camera, projVars, storeVars>>

\* xyz, rgb = project_to_3d(...); save_ply(xyz, rgb, initial_ply_path)
ProjectAndSave ==
    /\ pipe_pc = "project"
    /\ Project
    /\ \/ /\ initial_ply' = Some([fields |-> FieldOrder,
                                  vertex |-> PlainElements(FixedRows(xyz'), FixedRows(rgb'))])
          /\ files' = files \cup {"initial.ply"}
          /\ pipe_pc' = "phase3"
          /\ UNCHANGED <<script, iterations, iter, exit_code, report, failed>>
       \/ /\ Crash("serialization")
          /\ UNCHANGED <<files, initial_ply>>
    /\ UNCHANGED <<camera, storeVars>>

\* the points and colours the script builds its store from: run_demo passes
\* xyz and rgb from memory, run_optimization reads the initial PLY
StoreArguments ==
    IF script = "demo_pipeline"
    THEN [points |-> FixedRows(xyz), colors |-> FixedRows(rgb)]
    ELSE load_ply(initial_ply[1])

\* the field of view, in degrees, of the scripts' optimization camera
LoopFov == 60

\* get_default_camera of run_optimization: K = [[focal, 0, w/2],
\* [0, focal, h/2], [0, 0, 1]]
get_default_camera(w, h, fov_degrees) ==
    LET focal == RDiv(RMul(Rat(1, 2), RInt(w)), TanHalfFov(fov_degrees))
    IN  [fx |-> focal, fy |-> focal, cx |-> Rat(w, 2), cy |-> Rat(h, 2)]

\* run_demo's camera setup: fx = (new_w / 2) / tan(fov_rad / 2), fy = fx,
\* cx = new_w / 2, cy = new_h / 2
DemoCamera(new_w, new_h) ==
    LET fx == RDiv(Rat(new_w, 2), TanHalfFov(LoopFov))
    IN  [fx |-> fx, fy |-> fx, cx |-> Rat(new_w, 2), cy |-> Rat(new_h, 2)]

\* the intrinsics the script hands to optimize_step, for the size of its image
LoopCamera ==
    IF script = "demo_pipeline"
    THEN DemoCamera(image.width, image.height)
    ELSE get_default_camera(image.width, image.height, LoopFov)

\* optimizer = GaussianOptimizer(..., device='cuda') and the camera setup:
\* run_optimization builds K before the store, run_demo after it
PipeConstruct ==
    /\ pipe_pc = "phase3"
    /\ \/ /\ args' = StoreArguments
          /\ Build(StoreArguments.points, StoreArguments.colors)
          /\ store_pc' = "ready"
          /\ ret' = [op |-> "__init__", outcome |-> "ok"]
          /\ camera' = Some(LoopCamera)
          /\ pipe_pc' = "loop"
          /\ UNCHANGED <<script, iterations, iter, exit_code, report, failed,
                         calls, color_only, ply>>
       \/ /\ Crash("optimization")
          /\ camera' = IF script = "run_optimization" THEN Some(LoopCamera) ELSE None
          /\ UNCHANGED storeVars
    /\ UNCHANGED <<files, initial_ply, projVars>>

\* what optimize_step can raise on in the scripts, whose images fit
PipeRaiseStages == {"render", "backward"}

\* one pass of `for i in range(iterations)` whose optimize_step returns
LoopStep ==
    /\ pipe_pc = "loop"
    /\ iter < iterations
    /\ OptimizeStepReturns
    /\ iter' = iter + 1
    /\ UNCHANGED <<script, pipe_pc, iterations, exit_code, report, failed, files,
                   initial_ply, camera, projVars>>

\* one pass whose optimize_step raises, with a handler inside the loop that
\* logs the error and goes on to the next pass
LoopStepRaises_Continues ==
    /\ pipe_pc = "loop"
    /\ iter < iterations
    /\ OptimizeStepRaisesAt(PipeRaiseStages)
    /\ iter' = iter + 1
    /\ failed' = "optimization"
    /\ report' = "ERROR IN PHASE 3:"
    /\ files' = files \cup {"error_log.txt"}
    /\ UNCHANGED <<script, pipe_pc, iterations, exit_code, initial_ply, camera, projVars>>

\* one pass whose optimize_step raises: run_demo's handler takes over,
\* run_optimization dies of the exception
LoopStepRaises ==
    /\ pipe_pc = "loop"
    /\ iter < iterations
    /\ OptimizeStepRaisesAt(PipeRaiseStages)
    /\ \/ script = "demo_pipeline" /\ DemoExcept("optimization")
       \/ script = "run_optimization" /\ Crash("optimization") /\ UNCHANGED files
    /\ UNCHANGED <<initial_ply, camera, projVars>>

\* optimizer.save_ply(...) once the loop has run out
SaveOptimized ==
    /\ pipe_pc = "loop"
    /\ iter = iterations
    /\ \/ /\ SavePlyReturns
          /\ \/ /\ script = "demo_pipeline"
                /\ pipe_pc' = "render"
                /\ files' = files \cup {"optimized_gs.ply"}
                /\ UNCHANGED <<exit_code, report>>
             \/ /\ script = "run_optimization"
                /\ pipe_pc' = "exited"
                /\ files' = files \cup {"optimized.ply"}
                /\ exit_code' = Some(0)
                /\ report' = "Done!"
          /\ UNCHANGED <<script, iterations, iter, failed>>
       \/ /\ \/ script = "demo_pipeline" /\ DemoExcept("serialization")
             \/ script = "run_optimization" /\ Crash("serialization") /\ UNCHANGED files
          /\ UNCHANGED storeVars
    /\ UNCHANGED <<initial_ply, camera, projVars>>

\* run_demo rendering the result and saving it as render_result.png
RenderResult ==
    /\ pipe_pc = "render"
    /\ \/ /\ pipe_pc' = "exited"
          /\ files' = files \cup {"render_result.png"}
          /\ exit_code' = Some(0)
          /\ UNCHANGED <<script, iterations, iter, report, failed>>
       \/ DemoExcept("render")
    /\ UNCHANGED <<initial_ply, camera, projVars, storeVars>>

vars == <<projVars, storeVars, pipeVars>>

\* the projection is idle while a store is exercised, and the other way round
IdleProj ==
    /\ image = [width |-> 0, height |-> 0, px |-> <<>>]
    /\ depth = <<>>
    /\ proj_pc = "idle"
    /\ xyz = <<>>
    /\ rgb = <<>>

IdleStore ==
    /\ args = [points |-> <<>>, colors |-> <<>>]
    /\ store_pc = "idle"
    /\ points_initial = <<>>
    /\ colors_initial = <<>>
    /\ N = 0
    /\ means = <<>>
    /\ scales = <<>>
    /\ quats = <<>>
    /\ opacities = <<>>
    /\ sh0 = <<>>
    /\ grads = NoGrads
    /\ optimizer = NewOptimizer
    /\ calls = 0
    /\ ret = NoReturn
    /\ color_only = FALSE
    /\ ply = None

IdlePipe ==
    /\ script = "none"
    /\ pipe_pc = "idle"
    /\ iterations = 0
    /\ iter = 0
    /\ exit_code = None
    /\ report = "none"
    /\ failed = "none"
    /\ files = {}
    /\ initial_ply = None
    /\ camera = None

NextProj == Project /\ UNCHANGED <<storeVars, pipeVars>>

InitProj == ProjInputs /\ IdleStore /\ IdlePipe

SpecProj == InitProj /\ [][NextProj]_vars

Next ==
    \/ Construct /\ UNCHANGED <<projVars, pipeVars>>
    \/ OptimizeStepReturns /\ UNCHANGED <<projVars, pipeVars>>
    \/ OptimizeStepRaises /\ UNCHANGED <<projVars, pipeVars>>
    \/ OverrideScales /\ UNCHANGED <<projVars, pipeVars>>
    \/ OverrideOpacities /\ UNCHANGED <<projVars, pipeVars>>
    \/ SwitchToColorOptimization /\ UNCHANGED <<projVars, pipeVars>>
    \/ SavePlyReturns /\ UNCHANGED <<projVars, pipeVars>>
    \/ SavePlyRaises /\ UNCHANGED <<projVars, pipeVars>>
    \/ Reload /\ UNCHANGED <<projVars, pipeVars>>

Init == StoreInputs /\ IdleProj /\ IdlePipe

Spec == Init /\ [][Next]_vars

InitPipe == PipeInputs /\ IdleStore

NextPipe ==
    \/ DemoMissingImage
    \/ Prepare
    \/ ProjectAndSave
    \/ PipeConstruct
    \/ LoopStep
    \/ LoopStepRaises
    \/ SaveOptimized
    \/ RenderResult

SpecPipe == InitPipe /\ [][NextPipe]_vars

InitRead == ReadInputs /\ IdleProj /\ IdlePipe

NextRead ==
    \/ LoadPlyReturns /\ UNCHANGED <<projVars, pipeVars>>
    \/ LoadPlyRaises /\ UNCHANGED <<projVars, pipeVars>>

SpecRead == InitRead /\ [][NextRead]_vars

-----------------------------------------------------------------------------
(* Properties of the splat store *)

Constructed == store_pc \in {"ready", "saved", "reloaded"}

\* C2: the five per-splat attributes share the leading count N in every state
\* of a store, and N stays the number of points the store was built from.
C2_SharedCount ==
    Constructed =>
        /\ N = Len(args.points)
        /\ Len(means) = N
        /\ Len(scales) = N
        /\ Len(quats) = N
        /\ Len(opacities) = N
        /\ Len(sh0) = N

\* C3: points and colours of different counts never yield a store.
C3_MismatchRejected ==
    Len(args.points) # Len(args.colors) => ~Constructed

\* C4: once color-only mode has been asked for, a further optimization step
\* leaves position, log_scale, raw_rotation and opacity_logit as they were.
C4_FrozenAfterSwitch ==
    [][(color_only /\ calls' = calls + 1 /\ ret'.outcome = "ok")
          => (means' = means /\ scales' = scales /\ quats' = quats
              /\ opacities' = opacities)]_vars

\* the documented table of parameter groups
DocumentedGroups ==
    {[params |-> "means", lr |-> 16], [params |-> "scales", lr |-> 50],
     [params |-> "quats", lr |-> 10], [params |-> "opacities", lr |-> 500],
     [params |-> "sh0", lr |-> 25]}

\* C5: the optimizer built at construction has exactly the five documented
\* groups, and no other tensor is registered.
C5_FiveGroups ==
    Constructed =>
        /\ Len(optimizer.param_groups) = 5
        /\ {optimizer.param_groups[g] : g \in 1..Len(optimizer.param_groups)}
              = DocumentedGroups

File == ply[1]
RoundTripped == store_pc = "reloaded"

\* two raw quaternions that normalise to the same rotation
SameRotation(q, r) ==
    /\ \A a \in 1..4, b \in 1..4 : q[a] * r[b] = q[b] * r[a]
    /\ q[1] * r[1] + q[2] * r[2] + q[3] * r[3] + q[4] * r[4] > 0

\* C6 as stated: the store re-created from the written file has the N, the
\* scale, the opacity and the rotation of the store that was written (exp and
\* sigmoid are one-to-one, so equal physical values are equal raw values).
C6_RoundTripKeepsAll ==
    RoundTripped =>
        /\ N = Len(File.vertex)
        /\ \A i \in 1..N :
              /\ scales[i] = <<File.vertex[i].scale_0, File.vertex[i].scale_1,
                               File.vertex[i].scale_2>>
              /\ opacities[i] = <<File.vertex[i].opacity>>
              /\ SameRotation(quats[i], <<File.vertex[i].rot_0, File.vertex[i].rot_1,
                                          File.vertex[i].rot_2, File.vertex[i].rot_3>>)

\* C6 amended: the re-created store has the N and the position of every splat
\* of the store that was written; scale, opacity and rotation are not read
\* back, the re-created store has the constructor's -5.0, 0.0 and [1, 0, 0, 0].
C6_RoundTripKeepsPoints ==
    RoundTripped =>
        /\ N = Len(File.vertex)
        /\ Len(means) = N /\ Len(scales) = N /\ Len(quats) = N
        /\ Len(opacities) = N /\ Len(sh0) = N
        /\ \A i \in 1..N :
              /\ means[i] = <<File.vertex[i].x, File.vertex[i].y, File.vertex[i].z>>
              /\ scales[i] = <<InitLogScale, InitLogScale, InitLogScale>>
              /\ opacities[i] = <<0>>
              /\ quats[i] = <<Unit, 0, 0, 0>>

\* a two-splat store optimized, made solid, written and re-created
C6_Witness ==
    /\ RoundTripped
    /\ N = 2
    /\ calls > 0
    /\ File.vertex[1].opacity = SolidOpacity
    /\ File.vertex[2].rot_0 # Unit
    /\ means[1] # means[2]

\* C7: an optimize_step call that raises leaves the five attributes and the
\* optimizer's moment state as they were before the call.
C7_FailedStepChangesNothing ==
    [][(calls' = calls + 1 /\ ret'.outcome = "raised")
          => (means' = means /\ scales' = scales /\ quats' = quats
              /\ opacities' = opacities /\ sh0' = sh0 /\ optimizer' = optimizer)]_vars

\* a call that raised after an earlier call had moved the tensors
C7_Witness ==
    /\ ret = [op |-> "optimize_step", outcome |-> "raised"]
    /\ calls = 2
    /\ optimizer.state["means"] # None
    /\ means # points_initial

\* the constructor has just run: GaussianOptimizer(points, colors), or the
\* store re-created from a file
JustBuilt ==
    \/ store_pc = "new" /\ store_pc' = "ready"
    \/ store_pc = "saved" /\ store_pc' = "reloaded"

\* two fixed-point values that are the same float32 number
Near(a, b) == Abs(a - b) <= Float32Step

\* C12: right after construction from N points and N colours, splat i has the
\* position points[i] (as float32), log_scale -5.0 three times, raw_rotation
\* [1, 0, 0, 0], opacity_logit 0.0 and color_sh0 = (colors[i] - 0.5) / C0.
C12_InitialAttributes ==
    [][(JustBuilt /\ Len(args'.points) = Len(args'.colors)) =>
          /\ N' = Len(args'.points)
          /\ Len(means') = N' /\ Len(scales') = N' /\ Len(quats') = N'
          /\ Len(opacities') = N' /\ Len(sh0') = N'
          /\ \A i \in 1..N' :
                /\ \A k \in 1..3 : Near(means'[i][k], args'.points[i][k])
                /\ scales'[i] = <<-5 * Unit, -5 * Unit, -5 * Unit>>
                /\ quats'[i] = <<Unit, 0, 0, 0>>
                /\ opacities'[i] = <<0>>
                /\ \A k \in 1..3 :
                      Near(FMul(sh0'[i][k], SH_C0_SCALE),
                           args'.colors[i][k] - Unit \div 2)]_vars

\* a store just built from two points and two colours, one of them black
C12_Witness ==
    /\ store_pc = "ready"
    /\ calls = 0
    /\ ret = [op |-> "__init__", outcome |-> "ok"]
    /\ N = 2 /\ Len(args.colors) = 2
    /\ args.colors[1][1] = 0
    /\ sh0[1][1] < 0
    /\ scales = Full(2, 3, InitLogScale)

\* the 17 properties of a vertex record, in the order of the file format
Layout == <<"x", "y", "z", "nx", "ny", "nz", "f_dc_0", "f_dc_1", "f_dc_2", "opacity",
            "scale_0", "scale_1", "scale_2", "rot_0", "rot_1", "rot_2", "rot_3">>

\* save_ply of the store has just written its file
JustSaved == store_pc = "ready" /\ store_pc' = "saved" /\ ret'.outcome = "ok"

\* C13: the trained-splat writer emits the 17 fields in order and one record
\* per splat in store order; record i has zero normals and the raw position,
\* SH0 coefficient, opacity logit, log-scale and quaternion of splat i; the
\* store is the same after the call.
C13_WriterKeepsRawOrder ==
    [][JustSaved =>
          /\ ply'[1].fields = Layout
          /\ Len(ply'[1].vertex) = N
          /\ \A i \in 1..N :
                LET rec == ply'[1].vertex[i]
                IN  /\ <<rec.x, rec.y, rec.z>> = means[i]
                    /\ <<rec.nx, rec.ny, rec.nz>> = <<0, 0, 0>>
                    /\ i <= Len(sh0) => <<rec.f_dc_0, rec.f_dc_1, rec.f_dc_2>> = sh0[i]
                    /\ <<rec.opacity>> = opacities[i]
                    /\ <<rec.scale_0, rec.scale_1, rec.scale_2>> = scales[i]
                    /\ <<rec.rot_0, rec.rot_1, rec.rot_2, rec.rot_3>> = quats[i]
          /\ UNCHANGED <<N, means, scales, quats, opacities, sh0, optimizer>>]_vars

\* a two-splat store written after a step moved its quaternions off the unit
\* sphere and an override made it solid: the file holds the logit 10.0 and
\* the unnormalised quaternion
C13_Witness ==
    /\ store_pc = "saved" /\ ret = [op |-> "save_ply", outcome |-> "ok"]
    /\ N = 2 /\ Len(sh0) = 2
    /\ calls > 0
    /\ File.vertex[1].opacity = SolidOpacity
    /\ File.vertex[2].rot_0 # Unit
    /\ File.vertex[1].f_dc_0 # File.vertex[2].f_dc_0

\* a write on the live store, outside optimize_step, that has put the logit
\* 10.0 on a splat that did not have it
SolidOverride ==
    /\ store_pc = "ready" /\ store_pc' = "ready"
    /\ calls' = calls
    /\ \E i \in 1..N : opacities'[i] = <<10 * Unit>> /\ opacities[i] # <<10 * Unit>>

\* C17: a bulk opacity override with 10.0 puts the logit 10.0 on every one of
\* the N splats, leaves position, raw_rotation and color_sh0 (and log_scale)
\* as they were, and neither records a gradient nor touches the optimizer.
C17_OverrideAllSplats ==
    [][SolidOverride =>
          /\ Len(opacities') = N
          /\ \A i \in 1..N : opacities'[i] = <<10 * Unit>>
          /\ UNCHANGED <<N, means, quats, sh0, scales, grads, optimizer>>]_vars

\* two splats made solid after an optimization step had moved them
C17_Witness ==
    /\ store_pc = "ready"
    /\ N = 2 /\ calls > 0
    /\ opacities = <<(<<SolidOpacity>>), (<<SolidOpacity>>)>>
    /\ means # points_initial
    /\ grads["opacities"] # None

JustStepped == calls' = calls + 1 /\ ret'.op = "optimize_step" /\ ret'.outcome = "ok"

\* the mean over the three channels of one pixel of |a - b|
MeanAbs(a, b) ==
    ((IF a[1] > b[1] THEN a[1] - b[1] ELSE b[1] - a[1])
     + (IF a[2] > b[2] THEN a[2] - b[2] ELSE b[2] - a[2])
     + (IF a[3] > b[3] THEN a[3] - b[3] ELSE b[3] - a[3])) \div 3

\* C19: the loss optimize_step returns is the mean absolute difference of
\* the rendered image and the ground truth and nothing else: 0 when they are
\* equal, 1.0 for all-black against all-white; the image returned is the one
\* drawn from the parameters of before the step's update.
C19_LossIsMeanAbsolute ==
    [][JustStepped =>
          /\ ret'.loss = MeanAbs(ret'.image, ret'.gt)
          /\ ret'.image = ret'.gt => ret'.loss = 0
          /\ (ret'.gt = <<Unit, Unit, Unit>> /\ ret'.image = <<0, 0, 0>>)
                => ret'.loss = Unit
          /\ ret'.drawn.means = means /\ ret'.drawn.sh0 = sh0]_vars

\* a second step that rendered black against white and moved the colours
C19_Witness ==
    /\ ret.op = "optimize_step" /\ ret.outcome = "ok"
    /\ calls = 2
    /\ ret.image = Black /\ ret.gt = White
    /\ ret.loss = Unit
    /\ ret.drawn.sh0 # sh0

\* the Adam step count of tensor p in an optimizer, 0 before its first update
StepsOf(opt, p) == IF opt.state[p] = None THEN 0 ELSE opt.state[p][1].step

\* exp_avg (times 10^step) of tensor p, zero before its first update
ExpAvgOf(opt, p, i, k) == IF opt.state[p] = None THEN 0 ELSE opt.state[p][1].exp_avg[i][k]

\* tensor `after` is tensor `before` moved, entry by entry, by at most one
\* step of size lr
OneStepApart(before, after, lr) ==
    /\ Len(after) = Len(before)
    /\ \A i \in 1..Len(before) : \A k \in 1..Len(before[i]) :
          Abs(after[i][k] - before[i][k]) <= lr + Float32Step

\* C21: a call of optimize_step that returns leaves in .grad the gradients
\* of its own backward pass alone, whatever .grad held before, and has
\* updated every tensor that has a gradient exactly once from them: its Adam
\* step count is one higher, its first moment is 0.9 times the old one plus
\* 0.1 times this call's gradient, and no entry moved by more than one
\* learning-rate step; a tensor without gradient is left alone.
C21_OneUpdateFromOwnGradients ==
    [][JustStepped =>
          /\ grads' \in {Backward(kind) : kind \in GradKinds}
          /\ \A p \in Registered :
                IF grads'[p] # None
                THEN /\ StepsOf(optimizer', p) = StepsOf(optimizer, p) + 1
                     /\ \A i \in 1..Len(Param(p)) : \A k \in 1..Len(Param(p)[i]) :
                           ExpAvgOf(optimizer', p, i, k)
                             = 9 * ExpAvgOf(optimizer, p, i, k)
                               + Pow(10, StepsOf(optimizer, p)) * grads'[p][1][i][k]
                ELSE optimizer'.state[p] = optimizer.state[p]
          /\ OneStepApart(means, means', LrMeans)
          /\ OneStepApart(scales, scales', LrScales)
          /\ OneStepApart(quats, quats', LrQuats)
          /\ OneStepApart(opacities, opacities', LrOpacities)
          /\ OneStepApart(sh0, sh0', LrSh0)
          /\ colors_initial' = colors_initial]_vars

\* a second returning call whose gradient on the second splat is opposite to
\* that of the first call: .grad holds -1, not the sum 0, and the first
\* moment is 0.9 * 0.1 - 0.1 * 1 = -0.01 (held as -1)
C21_Witness ==
    /\ ret.op = "optimize_step" /\ ret.outcome = "ok"
    /\ calls = 2 /\ N = 2 /\ Len(sh0) = 2
    /\ StepsOf(optimizer, "sh0") = 2
    /\ grads["sh0"][1][2][1] = -1
    /\ ExpAvgOf(optimizer, "sh0", 2, 1) = -1

-----------------------------------------------------------------------------
(* Properties of the scripts *)

\* C8: a run in which a stage raised ends with a non-zero exit status and a
\* printed report of the failure; a failed optimization step of the demo
\* pipeline does not end in status 0.
C8_FailureExitsNonZero ==
    (pipe_pc = "exited" /\ failed # "none") =>
        /\ exit_code # Some(0)
        /\ report # "none"

-----------------------------------------------------------------------------
(* Properties of the projection *)

Width == image.width
Height == image.height
Projected == proj_pc = "projected"
FlatInput == \A v \in 1..Height, u \in 1..Width : depth[v][u] = depth[1][1]

\* the index of pixel (u, v), u = 0..W-1, v = 0..H-1, in a row-major sequence
PixelIndex(u, v) == v * Width + u + 1

\* the point of pixel (u, v) by the back-projection formula, in closed form:
\* Z = 5 / ((d - min)/(max - min + eps) + 0.05), X = (u - W/2) Z / f, Y = (v - H/2) Z / f
PixelPoint(u, v) ==
    LET all == {depth[r][c] : r \in 1..Height, c \in 1..Width}
        lo == CHOOSE m \in all : \A d \in all : m <= d
        hi == CHOOSE m \in all : \A d \in all : m >= d
        span == hi - lo + 1
        Z == Rat(100 * span, 20 * (depth[v + 1][u + 1] - lo) + span)
        tanHalf == Rat(5206, 10000)
        X == RMul(RMul(Rat(2 * u - Width, Width), tanHalf), Z)
        Y == RMul(RMul(Rat(2 * v - Height, Width), tanHalf), Z)
    IN  <<X, Y, Z>>

PixelColour(u, v) == [c \in 1..3 |-> Rat(image.px[v + 1][u + 1][c], 255)]

\* C1: for every W x H image and depth map, project_to_3d returns exactly W*H
\* positions and W*H colours, and entry v*W + u of both belongs to pixel (u, v).
C1_RowMajorAligned ==
    Projected =>
        /\ Len(xyz) = Width * Height
        /\ Len(rgb) = Width * Height
        /\ \A v \in 0..(Height - 1), u \in 0..(Width - 1) :
              /\ xyz[PixelIndex(u, v)] = PixelPoint(u, v)
              /\ rgb[PixelIndex(u, v)] = PixelColour(u, v)

\* a projected image that is not square and whose depth differs from pixel to pixel
C1_Witness ==
    /\ Projected
    /\ Width = 3 /\ Height = 2
    /\ depth[1][2] # depth[2][1]
    /\ Len(xyz) = 6

\* C9: a flat depth map gives W*H finite points whose Z is 100 everywhere.
C9_FlatDepthShell ==
    (Projected /\ FlatInput) =>
        /\ Len(xyz) = Width * Height
        /\ \A i \in 1..Len(xyz) :
              /\ \A k \in 1..3 : IsFinite(xyz[i][k])
              /\ xyz[i][3] = RInt(100)

\* the 4x4 map filled with 5.0, projected
C9_Witness ==
    /\ Projected /\ FlatInput
    /\ Width = 4 /\ Height = 4
    /\ depth[1][1] = FlatDepth
    /\ Len(xyz) = 16

HasMirror(i, k) == \E j \in 1..Len(xyz) : xyz[j][k] = RNeg(xyz[i][k])
Column(i) == (i - 1) % Width
Row(i) == (i - 1) \div Width

\* C10 as stated: on a flat square grid every X has its mirror -X among the
\* points, and every Y its mirror -Y.
C10_Symmetric ==
    (Projected /\ FlatInput /\ Width = Height) =>
        \A i \in 1..Len(xyz) : HasMirror(i, 1) /\ HasMirror(i, 2)

\* C10 amended: on a flat grid every point outside the first column has its
\* mirror -X among the points and every point outside the first row its mirror
\* -Y; the points of the first column (X = -(W/2) Z / f) and of the first row
\* (Y = -(H/2) Z / f) have none.
C10_SymmetricButFirst ==
    (Projected /\ FlatInput) =>
        \A i \in 1..Len(xyz) :
            /\ HasMirror(i, 1) <=> Column(i) # 0
            /\ HasMirror(i, 2) <=> Row(i) # 0

\* the flat 4x4 grid projected: column 1 at -X of column 3, column 0 alone
C10_Witness ==
    /\ Projected /\ FlatInput
    /\ Width = 4 /\ Height = 4
    /\ xyz[2][1] = RNeg(xyz[4][1])
    /\ ~HasMirror(1, 1)

\* C11: for a depth map with max > min every Z is finite, strictly positive
\* and lies between 5/1.05 and 100.
C11_DepthPositiveFinite ==
    (Projected /\ ~FlatInput) =>
        \A i \in 1..Len(xyz) :
            /\ IsFinite(xyz[i][3])
            /\ RLess(RInt(0), xyz[i][3])
            /\ ~RLess(xyz[i][3], Rat(500, 105))
            /\ ~RLess(RInt(100), xyz[i][3])

\* a projected map with a range: the farthest pixel at Z = 100, a nearer one below
C11_Witness ==
    /\ Projected /\ ~FlatInput
    /\ Width = 3 /\ Height = 3
    /\ \E i \in 1..Len(xyz) : xyz[i][3] = RInt(100)
    /\ \E i \in 1..Len(xyz) : RLess(xyz[i][3], RInt(6))

-----------------------------------------------------------------------------
(* Properties of the plain point-cloud writer and of the scripts' files *)

InitialFile == initial_ply[1]

\* C14: the plain writer emits, for every input point i in input order, a
\* 17-field record with the point's position, zero normals,
\* f_dc = (rgb[i] - 0.5) / C0, opacity 100.0, scale -4.0 three times and
\* rotation [1, 0, 0, 0], whatever the colours are.
C14_PlainWriterRecords ==
    initial_ply # None =>
        /\ InitialFile.fields = Layout
        /\ Len(InitialFile.vertex) = Len(xyz)
        /\ \A i \in 1..Len(xyz) :
              LET rec == InitialFile.vertex[i]
                  pos == <<rec.x, rec.y, rec.z>>
                  f_dc == <<rec.f_dc_0, rec.f_dc_1, rec.f_dc_2>>
              IN  /\ \A k \in 1..3 : Near(pos[k], ToFixed(xyz[i][k]))
                  /\ <<rec.nx, rec.ny, rec.nz>> = <<0, 0, 0>>
                  /\ \A k \in 1..3 :
                        Near(FMul(f_dc[k], SH_C0_SCALE), ToFixed(rgb[i][k]) - Unit \div 2)
                  /\ rec.opacity = 100 * Unit
                  /\ <<rec.scale_0, rec.scale_1, rec.scale_2>>
                        = <<-4 * Unit, -4 * Unit, -4 * Unit>>
                  /\ <<rec.rot_0, rec.rot_1, rec.rot_2, rec.rot_3>> = <<Unit, 0, 0, 0>>

\* the initial PLY of a projected image whose points and colours differ
C14_Witness ==
    /\ initial_ply # None
    /\ Len(InitialFile.vertex) = 4
    /\ InitialFile.vertex[1].z # InitialFile.vertex[4].z
    /\ InitialFile.vertex[1].f_dc_0 # InitialFile.vertex[2].f_dc_0
    /\ InitialFile.vertex[1].f_dc_2 > 0

-----------------------------------------------------------------------------
(* Properties of the PLY reader *)

Loaded == store_pc = "loaded"

\* every record of the file read has all the properties `names`
Present(names) == \A name \in names : name \in DOMAIN File.vertex[1]
AllRgb == Present({"red", "green", "blue"})
AllSh == Present({"f_dc_0", "f_dc_1", "f_dc_2"})

\* clip(dc * C0 + 0.5, 0, 1) of an SH coefficient
Decoded(dc) ==
    LET raw == (dc * SH_C0_SCALE) \div Unit + Unit \div 2
    IN  IF raw < 0 THEN 0 ELSE IF raw > Unit THEN Unit ELSE raw

\* C15: the reader takes the colours from red/green/blue divided by 255 when
\* all three are present (also when f_dc_* are), else from
\* clip(f_dc * C0 + 0.5, 0, 1) when f_dc_0..2 are all present, else returns
\* white for every point and prints a warning; it returns as many colours as
\* points in each case.
C15_ColorPriority ==
    Loaded =>
        LET v == File.vertex
            c == args.colors
        IN  /\ Len(args.points) = Len(v)
            /\ Len(c) = Len(args.points)
            /\ AllRgb =>
                  /\ \A i \in 1..Len(v) :
                        /\ Abs(c[i][1] * 255 - v[i].red * Unit) <= 255 * Float32Step
                        /\ Abs(c[i][2] * 255 - v[i].green * Unit) <= 255 * Float32Step
                        /\ Abs(c[i][3] * 255 - v[i].blue * Unit) <= 255 * Float32Step
                  /\ ret.printed = "none"
            /\ (~AllRgb /\ AllSh) =>
                  /\ \A i \in 1..Len(v) :
                        /\ Near(c[i][1], Decoded(v[i].f_dc_0))
                        /\ Near(c[i][2], Decoded(v[i].f_dc_1))
                        /\ Near(c[i][3], Decoded(v[i].f_dc_2))
                  /\ ret.printed = "none"
            /\ (~AllRgb /\ ~AllSh) =>
                  /\ \A i \in 1..Len(v) : c[i] = <<Unit, Unit, Unit>>
                  /\ ret.printed = "Warning: No color data found, using white."

\* a file with both kinds of colour fields read: red 0 is returned as 0.0
\* although f_dc_0 = 2.0 would decode to 1.0
C15_Witness ==
    /\ Loaded
    /\ AllRgb /\ AllSh
    /\ Len(File.vertex) = 2
    /\ File.vertex[1].red = 0 /\ File.vertex[1].f_dc_0 = 2 * Unit
    /\ args.colors[1][1] = 0

\* the file read has none of x, y, z
NoPosition == \A name \in {"x", "y", "z"} : name \notin DOMAIN File.vertex[1]

\* C16: reading a PLY whose vertex element has none of x, y, z fails: no
\* (points, colors) pair is returned and no positions are made up.
C16_NoPositionFails ==
    (store_pc \in {"loaded", "load_failed"} /\ NoPosition) =>
        /\ ret = [op |-> "load_ply", outcome |-> "raised", printed |-> "none"]
        /\ args = [points |-> <<>>, colors |-> <<>>]

\* a file of two coloured records without positions, whose read raised
C16_Witness ==
    /\ store_pc = "load_failed"
    /\ NoPosition /\ AllRgb
    /\ Len(File.vertex) = 2
    /\ ret.outcome = "raised"

\* the optimized PLY of either script is among the files written
OptimizedWritten == "optimized_gs.ply" \in files \/ "optimized.ply" \in files

\* C20: the optimized PLY is written only once all the iterations asked for
\* have returned, one after the other; when an optimization step raises, the
\* run ends there, the remaining iterations are not run, no optimized PLY is
\* written, and the demo pipeline has written its error log.
C20_SaveOnlyAfterAllSteps ==
    /\ OptimizedWritten =>
          /\ iter = iterations
          /\ calls = iterations
          /\ failed # "optimization"
    /\ pipe_pc = "loop" => calls = iter
    /\ (failed = "optimization" /\ store_pc = "ready") =>
          /\ pipe_pc = "exited"
          /\ iter < iterations
          /\ calls = iter + 1
          /\ ~OptimizedWritten
          /\ script = "demo_pipeline" => "error_log.txt" \in files

\* a demo run of two iterations whose second step raised
C20_Witness ==
    /\ script = "demo_pipeline"
    /\ iterations = 2 /\ iter = 1 /\ calls = 2
    /\ failed = "optimization"
    /\ pipe_pc = "exited"
    /\ "error_log.txt" \in files
    /\ ~OptimizedWritten

-----------------------------------------------------------------------------
(* Properties of the scripts' camera *)

\* the intrinsics project_to_3d built for the script's image
ProjectionCamera == get_intrinsics(image.width, image.height, DefaultFov)

\* C22: once a script has projected its image and set up the camera of its
\* optimization loop, that camera has the focal lengths and the principal
\* point of the camera project_to_3d used for the same image size.
C22_LoopCameraIsProjectionCamera ==
    (Projected /\ camera # None) => camera[1] = ProjectionCamera


====
